---- MODULE Spec2Model ----
(***************************************************************************)
(* Model of the load-test scenarios of game-ai-cs (src/loadtest).          *)
(*                                                                         *)
(* An actor is one simulated user.  Every task (and on_start) of an actor  *)
(* is one atomic action: the handler runs to its end, every HTTP call it   *)
(* makes receives a response chosen by the backend (drawn from the sets    *)
(* below), and the step leaves behind the actor's fields together with a   *)
(* record of what the handler did (the calls it issued, the failure events *)
(* it fired, whether it returned or raised).                               *)
(*                                                                         *)
(* Python values are modelled as tagged JSON values; None is JSON null.    *)
(* A handler of the source becomes an operator from a context (the actor's *)
(* fields and the record of the running handler) to the SET of its         *)
(* possible results, one per combination of backend responses.             *)
(***************************************************************************)
EXTENDS Integers, Sequences, FiniteSets, TLC

VARIABLES
    cls,                \* actor -> scenario class of the actor ("none": not spawned)
    pc,                 \* actor -> "new" (before on_start), "running", "dead"
    user,               \* actor -> the instance attributes of the actor
    ENV_GAME_ID,        \* os.getenv("GAME_ID")
    ENV_ISSUE_TYPE_ID,  \* os.getenv("ISSUE_TYPE_ID")
    AI_SESSION_ID,      \* os.getenv("AI_SESSION_ID")
    last                \* what the most recent handler did

vars == <<cls, pc, user, ENV_GAME_ID, ENV_ISSUE_TYPE_ID, AI_SESSION_ID, last>>

Actors == {"u1", "u2"}

-----------------------------------------------------------------------------
(* Python / JSON values                                                    *)

None == [k |-> "null"]
JStr(s) == [k |-> "str", s |-> s]
JList(l) == [k |-> "list", l |-> l]
JDict(m) == [k |-> "dict", m |-> m]
\* a response body that res.json() cannot parse (an empty body, as with 204)
Unparsable == [k |-> "bad"]
EmptyDict == JDict(<<>>)
\* Python True and False
True == [k |-> "true"]
False == [k |-> "false"]
EmptyList == JList(<<>>)

\* Python truthiness of a value
Truthy(v) ==
    CASE v.k = "null" -> FALSE
      [] v.k = "false" -> FALSE
      [] v.k = "str" -> v.s # ""
      [] v.k = "list" -> Len(v.l) > 0
      [] v.k = "dict" -> DOMAIN v.m # {}
      [] OTHER -> TRUE

\* Python `a or b`
Or(a, b) == IF Truthy(a) THEN a ELSE b

IsDict(v) == v.k = "dict"
IsList(v) == v.k = "list"

\* Python dict.get(key): the caller has made sure that d is a dict
Get(d, key) == IF key \in DOMAIN d.m THEN d.m[key] ELSE None

\* the idiom `x.get("id") if isinstance(x, dict) else None`
IdOf(x) == IF IsDict(x) THEN Get(x, "id") ELSE None

Resp(s, b) == [status_code |-> s, body |-> b]

OK_POST_CODES == {200, 201, 204}

\* an unwrapping that reads `data` of every mapping, present or not
extract_data_of_any_mapping(res) ==
    IF res.body = Unparsable THEN None
    ELSE IF IsDict(res.body) THEN Get(res.body, "data")
    ELSE res.body

extract_data(res) ==
    IF res.body = Unparsable THEN None
    ELSE IF IsDict(res.body) /\ "data" \in DOMAIN res.body.m THEN Get(res.body, "data")
    ELSE res.body

-----------------------------------------------------------------------------
(* The context of a running handler                                        *)

NoFields == [session_id |-> None, ticket_id |-> None,
             game_id |-> None, issue_type_id |-> None,
             token |-> None, headers |-> None, sid |-> None, sio |-> None]

Ctx(f) == [f |-> f, calls |-> <<>>, events |-> <<>>, raised |-> FALSE]

\* a result of a function of the source: the context it leaves and its value
Ret(c, v) == [c |-> c, v |-> v]

\* run F on every result of S
Bind(S, F(_)) == UNION {F(x) : x \in S}

\* self.client.<method>(url, json=..., headers=..., name=...) answered by res
Request(c, name, method, url, path, json, headers, res) ==
    [c EXCEPT !.calls = Append(@, [name |-> name, method |-> method, url |-> url,
                                   path |-> path, json |-> json,
                                   headers |-> headers, res |-> res])]

Raise(c) == [c EXCEPT !.raised = TRUE]

SetField(c, field, v) == [c EXCEPT !.f[field] = v]

FireFailure(c, name, res) ==
    [c EXCEPT !.events = Append(@, [request_type |-> "HTTP", name |-> name,
                                    status_code |-> res.status_code,
                                    text |-> res.body])]

\* a record_failure that forgets the throttling status
record_failure_reports_429(c, name, res) ==
    IF res.status_code \in {401} THEN c
    ELSE FireFailure(c, name, res)

\* BaseHttpUser.record_failure (common.py)
record_failure(c, name, res) ==
    IF res.status_code \in {401, 429} THEN c
    ELSE FireFailure(c, name, res)

-----------------------------------------------------------------------------
(* What the backend may answer                                             *)

Wrapped(v) == JDict("success" :> JStr("true") @@ "data" :> v)
WithId(i) == JDict("id" :> JStr(i))
Item(i, n) == JDict("id" :> JStr(i) @@ "name" :> JStr(n))
ErrorBody == JDict("message" :> JStr("error"))

\* bodies of an answer to a request that returns a list of {id, name}
ListBodies(first, second, preferred) ==
    { Wrapped(JList(<<Item(first, "Other"), Item(second, preferred)>>)),
      JList(<<Item(first, "Other")>>),
      Wrapped(EmptyList),
      Wrapped(JList(<<JDict("name" :> JStr("Other"))>>)),
      Unparsable }

ListResponses(first, second, preferred) ==
    {Resp(200, b) : b \in ListBodies(first, second, preferred)}
    \cup {Resp(201, Wrapped(JList(<<Item(first, "Other")>>)))}
    \cup {Resp(s, ErrorBody) : s \in {401, 429, 500}}

\* a list whose first entry has no id and whose second has a preferred name
FirstWithoutId(second, preferred) ==
    Resp(200, Wrapped(JList(<<JDict("name" :> JStr("Other")), Item(second, preferred)>>)))

GamesResponses ==
    ListResponses("g1", "g2", "DanDanTang") \cup {FirstWithoutId("g2", "DanDanTang")}
IssueTypeResponses ==
    ListResponses("i1", "i2", "QiTaWenTi") \cup {FirstWithoutId("i2", "QiTaWenTi")}

\* bodies of an answer to a request that creates a record and returns {id}
IdBodies(ids) ==
    {Wrapped(WithId(i)) : i \in ids}
    \cup { Wrapped(WithId("")), Wrapped(EmptyDict), Wrapped(None),
           JList(<<WithId("x")>>), Unparsable }

IdResponses(ids) ==
    {Resp(200, b) : b \in IdBodies(ids)}
    \cup {Resp(201, Wrapped(WithId(i))) : i \in ids}
    \cup {Resp(204, Unparsable)}
    \cup {Resp(s, ErrorBody) : s \in {401, 429, 500}}
    \cup {Resp(404, Wrapped(WithId(i))) : i \in ids}

TicketResponses == IdResponses({"t1"})
SessionResponses == IdResponses({"s1", "s2"})

\* answers to requests of which the handler reads the status at most
PlainResponses ==
    {Resp(s, Unparsable) : s \in {200, 204}}
    \cup {Resp(s, ErrorBody) : s \in {401, 429, 500}}

SessionListResponses == ListResponses("s1", "s2", "Other")
TicketListResponses == ListResponses("t1", "t2", "Other")

WithToken(t) == Wrapped(JDict("accessToken" :> JStr(t)))

LoginResponses ==
    {Resp(200, WithToken(t)) : t \in {"tok1", "tok2", ""}}
    \cup {Resp(200, b) : b \in {Wrapped(EmptyDict), Wrapped(None), Unparsable,
                                JList(<<JStr("tok1")>>)}}
    \cup {Resp(201, WithToken("tok1"))}
    \cup {Resp(s, ErrorBody) : s \in {401, 429, 500}}

\* answers to requests of which the handler reads nothing
IgnoredResponses == {Resp(200, Unparsable), Resp(500, ErrorBody)}

-----------------------------------------------------------------------------
(* common.py: BaseHttpUser                                                 *)

get_any_issue_type_id_fetched(c, res) ==
    LET c1 == Request(c, "issue_types_enabled", "GET", "/issue-types", None, None, None, res)
        types == Or(extract_data(res), EmptyList)
        t == types.l[1]
        v == IdOf(t)
    IN  IF res.status_code # 200 THEN Ret(record_failure(c1, "issue_types_enabled", res), None)
        ELSE IF IsList(types) /\ Truthy(types) /\ Truthy(v)
             THEN Ret(SetField(c1, "issue_type_id", v), v)
        ELSE Ret(c1, None)

get_any_issue_type_id(c) ==
    IF Truthy(ENV_ISSUE_TYPE_ID) THEN {Ret(c, ENV_ISSUE_TYPE_ID)}
    ELSE IF Truthy(c.f.issue_type_id) THEN {Ret(c, c.f.issue_type_id)}
    ELSE {get_any_issue_type_id_fetched(c, res) : res \in IssueTypeResponses}

\* a lookup that returns the id it found without keeping it
get_any_game_id_fetched_forgetful(c, res) ==
    LET c1 == Request(c, "games_enabled", "GET", "/games/enabled", None, None, None, res)
        games == Or(extract_data(res), EmptyList)
        g == games.l[1]
        v == IdOf(g)
    IN  IF res.status_code # 200 THEN Ret(record_failure(c1, "games_enabled", res), None)
        ELSE IF IsList(games) /\ Truthy(games) /\ Truthy(v) THEN Ret(c1, v)
        ELSE Ret(c1, None)

get_any_game_id_fetched(c, res) ==
    LET c1 == Request(c, "games_enabled", "GET", "/games/enabled", None, None, None, res)
        games == Or(extract_data(res), EmptyList)
        g == games.l[1]
        v == IdOf(g)
    IN  IF res.status_code # 200 THEN Ret(record_failure(c1, "games_enabled", res), None)
        ELSE IF IsList(games) /\ Truthy(games) /\ Truthy(v)
             THEN Ret(SetField(c1, "game_id", v), v)
        ELSE Ret(c1, None)

get_any_game_id(c) ==
    IF Truthy(ENV_GAME_ID) THEN {Ret(c, ENV_GAME_ID)}
    ELSE IF Truthy(c.f.game_id) THEN {Ret(c, c.f.game_id)}
    ELSE {get_any_game_id_fetched(c, res) : res \in GamesResponses}

TicketPayload(gid, iid) == JDict("gameId" :> gid @@ "issueTypeIds" :> JList(<<iid>>))

ADMIN_CREDENTIAL == JDict("username" :> JStr("admin") @@ "password" :> JStr("admin123"))

\* f"Bearer {token}"
Bearer(token) == [k |-> "fstr", prefix |-> "Bearer ", v |-> token]

\* a login_admin that reads the token whatever the status
login_admin_answered_any_status(c, res) ==
    LET c1 == Request(c, "auth_login", "POST", "/auth/login", None, ADMIN_CREDENTIAL, None, res)
        data == Or(extract_data(res), EmptyDict)
        token == Get(data, "accessToken")
    IN  IF ~IsDict(data) THEN Ret(Raise(c1), None)
        ELSE IF ~Truthy(token) THEN Ret(c1, False)
        ELSE Ret(SetField(SetField(c1, "token", token),
                          "headers", JDict("Authorization" :> Bearer(token))), True)

\* the answer to POST /auth/login of login_admin
login_admin_answered(c, res) ==
    LET c1 == Request(c, "auth_login", "POST", "/auth/login", None, ADMIN_CREDENTIAL, None, res)
        data == Or(extract_data(res), EmptyDict)
        token == Get(data, "accessToken")
    IN  IF res.status_code # 200 THEN Ret(record_failure(c1, "auth_login", res), False)
        ELSE IF ~IsDict(data) THEN Ret(Raise(c1), None)
        ELSE IF ~Truthy(token) THEN Ret(c1, False)
        ELSE Ret(SetField(SetField(c1, "token", token),
                          "headers", JDict("Authorization" :> Bearer(token))), True)

login_admin(c) == {login_admin_answered(c, res) : res \in LoginResponses}

\* a logout_admin that forgets the token and keeps the headers
logout_admin_keeps_headers(c) ==
    IF ~Truthy(c.f.headers) THEN {c}
    ELSE {SetField(Request(c, "auth_logout", "POST", "/auth/logout", None, None,
                           c.f.headers, res),
                   "token", None) : res \in PlainResponses}

\* a logout_admin that forgets the credentials only when the logout is accepted
logout_admin_checks_status(c) ==
    IF ~Truthy(c.f.headers) THEN {c}
    ELSE {LET c1 == Request(c, "auth_logout", "POST", "/auth/logout", None, None,
                            c.f.headers, res)
          IN  IF res.status_code \notin OK_POST_CODES THEN c1
              ELSE SetField(SetField(c1, "token", None), "headers", None) :
              res \in PlainResponses}

logout_admin(c) ==
    IF ~Truthy(c.f.headers) THEN {c}
    ELSE {SetField(SetField(Request(c, "auth_logout", "POST", "/auth/logout", None, None,
                                    c.f.headers, res),
                            "token", None), "headers", None) : res \in PlainResponses}

-----------------------------------------------------------------------------
(* auth_user.py: AuthUser                                                  *)

AuthUser_login_logout(c) ==
    Bind(login_admin(c), LAMBDA r :
        IF r.c.raised \/ ~Truthy(r.v) THEN {r.c}
        ELSE logout_admin(r.c))

-----------------------------------------------------------------------------
(* admin_user.py: AdminUser                                                *)

AdminUser_on_start(c) == {r.c : r \in login_admin(c)}

AdminUser_dashboard_fetched(c, rt, rs) ==
    Request(Request(c, "admin_tickets", "GET", "/tickets", None, None, c.f.headers, rt),
            "admin_sessions", "GET", "/sessions", None, None, c.f.headers, rs)

\* a dashboard that goes on after a login that failed
AdminUser_dashboard_unchecked(c) ==
    Bind(IF ~Truthy(c.f.headers) THEN login_admin(c) ELSE {Ret(c, True)}, LAMBDA r :
        IF r.c.raised THEN {r.c}
        ELSE {AdminUser_dashboard_fetched(r.c, rt, rs) :
                  rt \in IgnoredResponses, rs \in IgnoredResponses})

AdminUser_dashboard(c) ==
    Bind(IF ~Truthy(c.f.headers) THEN login_admin(c) ELSE {Ret(c, True)}, LAMBDA r :
        IF r.c.raised \/ ~Truthy(r.v) THEN {r.c}
        ELSE {AdminUser_dashboard_fetched(r.c, rt, rs) :
                  rt \in IgnoredResponses, rs \in IgnoredResponses})

\* a reply that gives up when the join is rejected
AdminUser_reply_any_replied_if_joined(c, sid, rj, rm, rc) ==
    LET c1 == Request(c, "admin_join_session", "POST", "/sessions/{}/join", sid, None,
                      c.f.headers, rj)
        c2 == Request(c1, "admin_send_agent_msg", "POST", "/messages/agent", None,
                      JDict("sessionId" :> sid), c.f.headers, rm)
    IN  IF rj.status_code \notin OK_POST_CODES THEN c1
        ELSE Request(c2, "admin_close_session", "PATCH", "/sessions/{}/close", sid, None,
                     c.f.headers, rc)

\* the three calls on the chosen session
AdminUser_reply_any_replied(c, sid, rj, rm, rc) ==
    LET c1 == Request(c, "admin_join_session", "POST", "/sessions/{}/join", sid, None,
                      c.f.headers, rj)
        c2 == Request(c1, "admin_send_agent_msg", "POST", "/messages/agent", None,
                      JDict("sessionId" :> sid), c.f.headers, rm)
    IN  Request(c2, "admin_close_session", "PATCH", "/sessions/{}/close", sid, None,
                c.f.headers, rc)

\* the answer to GET /sessions of reply_any
AdminUser_reply_any_picked(c, res) ==
    LET c1 == Request(c, "admin_sessions_pick", "GET", "/sessions", None, None,
                      c.f.headers, res)
        sessions == Or(extract_data(res), EmptyList)
    IN  IF res.status_code # 200 THEN {record_failure(c1, "admin_sessions_pick", res)}
        ELSE IF ~IsList(sessions) \/ ~Truthy(sessions) THEN {c1}
        ELSE \* random.choice(sessions)
             UNION { LET sid == IdOf(sessions.l[n])
                     IN  IF ~Truthy(sid) THEN {c1}
                         ELSE {AdminUser_reply_any_replied(c1, sid, rj, rm, rc) :
                                   rj \in IgnoredResponses, rm \in IgnoredResponses,
                                   rc \in IgnoredResponses} : n \in 1..Len(sessions.l) }

AdminUser_reply_any(c) ==
    IF ~Truthy(c.f.headers) THEN {c}
    ELSE UNION {AdminUser_reply_any_picked(c, res) : res \in SessionListResponses}

-----------------------------------------------------------------------------
(* player_user.py: PlayerUser                                              *)

PlayerUser_on_start(c) == {SetField(SetField(c, "session_id", None), "ticket_id", None)}

\* a create_ticket that reads the id whatever the status
PlayerUser_create_ticket_posted_any_status(c, gid, iid, res) ==
    LET c1 == Request(c, "player_create_ticket", "POST", "/tickets", None,
                      TicketPayload(gid, iid), None, res)
        data == Or(extract_data(res), EmptyDict)
        c2 == SetField(c1, "ticket_id", IdOf(data))
    IN  Ret(c2, c2.f.ticket_id)

PlayerUser_create_ticket_posted(c, gid, iid, res) ==
    LET c1 == Request(c, "player_create_ticket", "POST", "/tickets", None,
                      TicketPayload(gid, iid), None, res)
        data == Or(extract_data(res), EmptyDict)
        c2 == SetField(c1, "ticket_id", IdOf(data))
    IN  IF res.status_code \notin OK_POST_CODES
        THEN Ret(record_failure(c1, "player_create_ticket", res), None)
        ELSE Ret(c2, c2.f.ticket_id)

PlayerUser_create_ticket(c) ==
    Bind(get_any_game_id(c), LAMBDA g :
    Bind(get_any_issue_type_id(g.c), LAMBDA i :
        IF ~Truthy(g.v) \/ ~Truthy(i.v) THEN {Ret(i.c, None)}
        ELSE {PlayerUser_create_ticket_posted(i.c, g.v, i.v, res) : res \in TicketResponses}))

\* a session creation that forgets the cached session when it is rejected
PlayerUser_create_session_posted_resets(c, res) ==
    LET c1 == Request(c, "player_create_session", "POST", "/sessions", None,
                      JDict("ticketId" :> c.f.ticket_id), None, res)
        data == Or(extract_data(res), EmptyDict)
        c2 == SetField(c1, "session_id", IdOf(data))
    IN  IF res.status_code \notin OK_POST_CODES
        THEN Ret(SetField(record_failure(c1, "player_create_session", res),
                          "session_id", None), None)
        ELSE Ret(c2, c2.f.session_id)

PlayerUser_create_session_posted(c, res) ==
    LET c1 == Request(c, "player_create_session", "POST", "/sessions", None,
                      JDict("ticketId" :> c.f.ticket_id), None, res)
        data == Or(extract_data(res), EmptyDict)
        c2 == SetField(c1, "session_id", IdOf(data))
    IN  IF res.status_code \notin OK_POST_CODES
        THEN Ret(record_failure(c1, "player_create_session", res), None)
        ELSE Ret(c2, c2.f.session_id)

\* a create_session without the guard on the resolved ticket id
PlayerUser_create_session_unguarded(c) ==
    Bind(IF ~Truthy(c.f.ticket_id)
         THEN {SetField(t.c, "ticket_id", t.v) : t \in PlayerUser_create_ticket(c)}
         ELSE {c},
         LAMBDA c1 :
            {PlayerUser_create_session_posted(c1, res) : res \in SessionResponses})

PlayerUser_create_session(c) ==
    Bind(IF ~Truthy(c.f.ticket_id)
         THEN {SetField(t.c, "ticket_id", t.v) : t \in PlayerUser_create_ticket(c)}
         ELSE {c},
         LAMBDA c1 :
            IF ~Truthy(c1.f.ticket_id) THEN {Ret(c1, None)}
            ELSE {PlayerUser_create_session_posted(c1, res) : res \in SessionResponses})

PlayerUser_send_message_sent(c, rm, rp) ==
    LET c1 == Request(c, "player_send_msg", "POST", "/messages", None,
                      JDict("sessionId" :> c.f.session_id), None, rm)
        c2 == Request(c1, "player_poll_msgs", "GET", "/messages/session/{}",
                      c.f.session_id, None, None, rp)
    IN  IF rp.status_code # 200 THEN record_failure(c2, "player_poll_msgs", rp) ELSE c2

\* a send_message without the guard on the cached session id
PlayerUser_send_message_unguarded(c) ==
    Bind({s.c : s \in PlayerUser_create_session(c)},
         LAMBDA c1 :
            IF ~Truthy(c1.f.session_id) THEN {c1}
            ELSE {PlayerUser_send_message_sent(c1, rm, rp) :
                      rm \in IgnoredResponses, rp \in PlainResponses})

\* a send_message that posts the session once more when the first POST gave no id
PlayerUser_send_message_retrying(c) ==
    Bind(IF ~Truthy(c.f.session_id)
         THEN Bind(PlayerUser_create_session(c), LAMBDA s :
                  IF ~Truthy(s.c.f.session_id) /\ Truthy(s.c.f.ticket_id)
                  THEN {PlayerUser_create_session_posted(s.c, res).c :
                            res \in SessionResponses}
                  ELSE {s.c})
         ELSE {c},
         LAMBDA c1 :
            IF ~Truthy(c1.f.session_id) THEN {c1}
            ELSE {PlayerUser_send_message_sent(c1, rm, rp) :
                      rm \in IgnoredResponses, rp \in PlainResponses})

PlayerUser_send_message(c) ==
    Bind(IF ~Truthy(c.f.session_id)
         THEN {s.c : s \in PlayerUser_create_session(c)}
         ELSE {c},
         LAMBDA c1 :
            IF ~Truthy(c1.f.session_id) THEN {c1}
            ELSE {PlayerUser_send_message_sent(c1, rm, rp) :
                      rm \in IgnoredResponses, rp \in PlainResponses})

PlayerUser_create_session_task(c) == {s.c : s \in PlayerUser_create_session(c)}

PlayerUser_get_session(c, name, url, res) ==
    LET c1 == Request(c, name, "GET", url, c.f.session_id, None, None, res)
    IN  IF res.status_code # 200 THEN record_failure(c1, name, res) ELSE c1

PlayerUser_list_messages(c) ==
    IF ~Truthy(c.f.session_id) THEN {c}
    ELSE {PlayerUser_get_session(c, "player_list_messages", "/messages/session/{}", res) :
              res \in PlainResponses}

PlayerUser_session_detail(c) ==
    IF ~Truthy(c.f.session_id) THEN {c}
    ELSE {PlayerUser_get_session(c, "player_session_detail", "/sessions/{}", res) :
              res \in PlainResponses}

-----------------------------------------------------------------------------
(* player_core_user.py: PlayerCoreUser                                     *)

PlayerCoreUser_on_start(c) == {SetField(SetField(c, "session_id", None), "ticket_id", None)}

PlayerCoreUser_create_ticket_posted(c, gid, iid, res) ==
    LET c1 == Request(c, "player_core_create_ticket", "POST", "/tickets", None,
                      TicketPayload(gid, iid), None, res)
        data == Or(extract_data(res), EmptyDict)
        c2 == SetField(c1, "ticket_id", IdOf(data))
    IN  IF res.status_code \notin OK_POST_CODES THEN Ret(c1, None)
        ELSE Ret(c2, c2.f.ticket_id)

PlayerCoreUser_create_ticket(c) ==
    Bind(get_any_game_id(c), LAMBDA g :
    Bind(get_any_issue_type_id(g.c), LAMBDA i :
        IF ~Truthy(g.v) \/ ~Truthy(i.v) THEN {Ret(i.c, None)}
        ELSE {PlayerCoreUser_create_ticket_posted(i.c, g.v, i.v, res) :
                  res \in TicketResponses}))

PlayerCoreUser_create_session_posted(c, res) ==
    LET c1 == Request(c, "player_core_create_session", "POST", "/sessions", None,
                      JDict("ticketId" :> c.f.ticket_id), None, res)
        data == Or(extract_data(res), EmptyDict)
        c2 == SetField(c1, "session_id", IdOf(data))
    IN  IF res.status_code \notin OK_POST_CODES THEN Ret(c1, None)
        ELSE Ret(c2, c2.f.session_id)

PlayerCoreUser_create_session(c) ==
    Bind(IF ~Truthy(c.f.ticket_id)
         THEN {SetField(t.c, "ticket_id", t.v) : t \in PlayerCoreUser_create_ticket(c)}
         ELSE {c},
         LAMBDA c1 :
            IF ~Truthy(c1.f.ticket_id) THEN {Ret(c1, None)}
            ELSE {PlayerCoreUser_create_session_posted(c1, res) : res \in SessionResponses})

PlayerCoreUser_send_message_sent(c, rm) ==
    Request(c, "player_core_send_msg", "POST", "/messages", None,
            JDict("sessionId" :> c.f.session_id), None, rm)

PlayerCoreUser_send_message(c) ==
    Bind(IF ~Truthy(c.f.session_id)
         THEN {s.c : s \in PlayerCoreUser_create_session(c)}
         ELSE {c},
         LAMBDA c1 :
            IF ~Truthy(c1.f.session_id) THEN {c1}
            ELSE {PlayerCoreUser_send_message_sent(c1, rm) : rm \in IgnoredResponses})

PlayerCoreUser_create_session_task(c) == {s.c : s \in PlayerCoreUser_create_session(c)}

-----------------------------------------------------------------------------
(* locustfile.py: BaseUser                                                 *)
(* The attributes _player_issue_type_id, _player_game_id and               *)
(* _cached_player_session of this file are the fields issue_type_id,       *)
(* game_id and session_id of the actor.                                    *)

\* the preferred names, transliterated
PREFERRED_GAMES == <<"ShenQu", "DanDanTang">>
PREFERRED_ISSUE_TYPES ==
    <<"YouXiWanFaZiXun", "HaoYouSheJiaoWenTi", "QiTaWenTi", "ShiMingRenZhengWenTi",
      "HuoDongJiangLiWenTi">>

Min(S) == CHOOSE x \in S : \A y \in S : x <= y

is_throttle(res) == res.status_code = 429

is_unauthorized(res) == res.status_code = 401

Locust_record_failure(c, name, res) ==
    IF is_throttle(res) \/ is_unauthorized(res) THEN c
    ELSE FireFailure(c, name, res)

\* next((item for item in items if isinstance(item, dict) and item.get("name") == name), None)
FirstNamed(items, name) ==
    LET idx == {i \in 1..Len(items) : IsDict(items[i]) /\ Get(items[i], "name") = JStr(name)}
    IN  IF idx = {} THEN None ELSE items[Min(idx)]

\* the loop over the preferred names, then the fallback to the first entry
PreferredId(items, preferred) ==
    LET hit == {j \in 1..Len(preferred) :
                    LET match == FirstNamed(items, preferred[j])
                    IN  Truthy(match) /\ Truthy(Get(match, "id"))}
        found == IF hit = {} THEN None ELSE Get(FirstNamed(items, preferred[Min(hit)]), "id")
    IN  IF ~Truthy(found) THEN IdOf(items[1]) ELSE found

Locust_get_any_issue_type_id_fetched(c, cache_attr, res) ==
    LET c1 == Request(c, "common_issue_types", "GET", "/issue-types", None, None,
                      c.f.headers, res)
        issue_types == Or(extract_data(res), EmptyList)
        issue_type_id == PreferredId(issue_types.l, PREFERRED_ISSUE_TYPES)
    IN  IF res.status_code # 200
        THEN Ret(IF ~is_unauthorized(res) /\ ~is_throttle(res)
                 THEN Locust_record_failure(c1, "common_issue_types", res) ELSE c1, None)
        ELSE IF ~IsList(issue_types) \/ ~Truthy(issue_types) THEN Ret(c1, None)
        ELSE Ret(IF Truthy(issue_type_id) THEN SetField(c1, cache_attr, issue_type_id) ELSE c1,
                 issue_type_id)

Locust_get_any_issue_type_id(c, cache_attr) ==
    IF Truthy(ENV_ISSUE_TYPE_ID) THEN {Ret(c, ENV_ISSUE_TYPE_ID)}
    ELSE IF Truthy(c.f[cache_attr]) THEN {Ret(c, c.f[cache_attr])}
    ELSE {Locust_get_any_issue_type_id_fetched(c, cache_attr, res) : res \in IssueTypeResponses}

Locust_get_any_game_id_fetched(c, cache_attr, res) ==
    LET c1 == Request(c, "common_games", "GET", "/games", None, None, c.f.headers, res)
        games == Or(extract_data(res), EmptyList)
        game_id == PreferredId(games.l, PREFERRED_GAMES)
    IN  IF res.status_code # 200
        THEN Ret(IF ~is_unauthorized(res) /\ ~is_throttle(res)
                 THEN Locust_record_failure(c1, "common_games", res) ELSE c1, None)
        ELSE IF ~IsList(games) \/ ~Truthy(games) THEN Ret(c1, None)
        ELSE Ret(IF Truthy(game_id) THEN SetField(c1, cache_attr, game_id) ELSE c1, game_id)

Locust_get_any_game_id(c, cache_attr) ==
    IF Truthy(ENV_GAME_ID) THEN {Ret(c, ENV_GAME_ID)}
    ELSE IF Truthy(c.f[cache_attr]) THEN {Ret(c, c.f[cache_attr])}
    ELSE IF ~Truthy(c.f.headers) THEN {Ret(c, None)}
    ELSE {Locust_get_any_game_id_fetched(c, cache_attr, res) : res \in GamesResponses}

-----------------------------------------------------------------------------
(* locustfile.py: PlayerUser                                               *)

Locust_PlayerUser_login_answered(c, res) ==
    LET c1 == Request(c, "player_login", "POST", "/auth/login", None, None, None, res)
        data == Or(extract_data(res), EmptyDict)
        token == Get(data, "accessToken")
    IN  IF res.status_code # 200 THEN Locust_record_failure(c1, "player_login", res)
        ELSE IF ~IsDict(data) THEN Raise(c1)
        ELSE IF ~Truthy(token) THEN Locust_record_failure(c1, "player_login_no_token", res)
        ELSE SetField(SetField(c1, "token", token),
                      "headers", JDict("Authorization" :> Bearer(token)))

Locust_PlayerUser_login(c) == {Locust_PlayerUser_login_answered(c, res) : res \in LoginResponses}

\* BaseUser.on_start
Locust_PlayerUser_on_start(c) == Locust_PlayerUser_login(c)

\* the class attribute player_game_id
player_game_id == ENV_GAME_ID

Locust_PlayerUser_post_ticket(c, name, game_id, issue_type_id, res) ==
    LET c1 == Request(c, name, "POST", "/tickets", None,
                      TicketPayload(game_id, issue_type_id), c.f.headers, res)
        data == Or(extract_data(res), EmptyDict)
    IN  IF res.status_code \notin OK_POST_CODES
        THEN Ret(Locust_record_failure(c1, name, res), None)
        ELSE Ret(c1, IdOf(data))

Locust_PlayerUser_create_ticket_and_return_id(c) ==
    Bind(Locust_get_any_issue_type_id(c, "issue_type_id"), LAMBDA i :
        IF ~Truthy(i.v) THEN {Ret(i.c, None)}
        ELSE Bind(Locust_get_any_game_id(i.c, "game_id"), LAMBDA g :
            LET game_id == Or(g.v, player_game_id)
            IN  IF ~Truthy(game_id) THEN {Ret(g.c, None)}
                ELSE {Locust_PlayerUser_post_ticket(g.c, "player_create_ticket_auto",
                                                    game_id, i.v, res) :
                          res \in TicketResponses}))

Locust_PlayerUser_get_random_session_id_fetched(c, res) ==
    LET c1 == Request(c, "player_list_sessions", "GET", "/sessions", None, None,
                      c.f.headers, res)
        sessions == Or(extract_data(res), EmptyList)
    IN  IF res.status_code # 200
        THEN {Ret(IF ~is_throttle(res)
                  THEN Locust_record_failure(c1, "player_list_sessions", res) ELSE c1, None)}
        ELSE IF ~IsList(sessions) \/ ~Truthy(sessions) THEN {Ret(c1, None)}
        ELSE \* random.choice(sessions)
             { LET session_id == IdOf(sessions.l[n])
               IN  Ret(IF Truthy(session_id) THEN SetField(c1, "session_id", session_id)
                       ELSE c1, session_id) : n \in 1..Len(sessions.l) }

Locust_PlayerUser_get_random_session_id(c) ==
    IF Truthy(c.f.session_id) THEN {Ret(c, c.f.session_id)}
    ELSE UNION {Locust_PlayerUser_get_random_session_id_fetched(c, res) :
                    res \in SessionListResponses}

Locust_PlayerUser_get_any_ticket_id_fetched(c, res) ==
    LET c1 == Request(c, "player_list_tickets_for_detail", "GET", "/tickets", None, None,
                      c.f.headers, res)
        tickets == Or(extract_data(res), EmptyList)
    IN  IF res.status_code # 200
        THEN {Ret(Locust_record_failure(c1, "player_list_tickets_for_detail", res), None)}
        ELSE IF ~IsList(tickets) \/ ~Truthy(tickets)
             THEN Locust_PlayerUser_create_ticket_and_return_id(c1)
        ELSE {Ret(c1, IdOf(tickets.l[1]))}

Locust_PlayerUser_get_any_ticket_id(c) ==
    UNION {Locust_PlayerUser_get_any_ticket_id_fetched(c, res) : res \in TicketListResponses}

Locust_PlayerUser_create_session_posted(c, ticket_id, res) ==
    LET c1 == Request(c, "player_create_session", "POST", "/sessions", None,
                      JDict("ticketId" :> ticket_id), c.f.headers, res)
        data == Or(extract_data(res), EmptyDict)
    IN  IF res.status_code \notin OK_POST_CODES
        THEN Ret(Locust_record_failure(c1, "player_create_session", res), None)
        ELSE Ret(c1, IdOf(data))

Locust_PlayerUser_create_session_and_return_id(c) ==
    Bind(Locust_PlayerUser_get_any_ticket_id(c), LAMBDA t :
        IF ~Truthy(t.v) THEN {Ret(t.c, None)}
        ELSE {Locust_PlayerUser_create_session_posted(t.c, t.v, res) :
                  res \in SessionResponses})

\* a request whose answer is reported unless its status is in ok
Locust_checked(c, name, method, url, path, json, ok, res) ==
    LET c1 == Request(c, name, method, url, path, json, c.f.headers, res)
    IN  IF res.status_code \notin ok THEN Locust_record_failure(c1, name, res) ELSE c1

Locust_PlayerUser_send_message(c) ==
    Bind(Locust_PlayerUser_get_random_session_id(c), LAMBDA r :
    Bind(IF Truthy(r.v) THEN {r} ELSE Locust_PlayerUser_create_session_and_return_id(r.c),
         LAMBDA s :
            IF ~Truthy(s.v) THEN {s.c}
            ELSE {Locust_checked(s.c, "player_send_message", "POST", "/messages", None,
                                 JDict("sessionId" :> s.v), OK_POST_CODES, res) :
                      res \in PlainResponses}))

Locust_PlayerUser_create_ticket(c) ==
    Bind(Locust_get_any_issue_type_id(c, "issue_type_id"), LAMBDA i :
        IF ~Truthy(i.v) THEN {i.c}
        ELSE Bind(Locust_get_any_game_id(i.c, "game_id"), LAMBDA g :
            LET game_id == Or(g.v, player_game_id)
            IN  IF ~Truthy(game_id) THEN {g.c}
                ELSE {Locust_PlayerUser_post_ticket(g.c, "player_create_ticket",
                                                    game_id, i.v, res).c :
                          res \in TicketResponses}))

Locust_PlayerUser_list_sessions_task(c) ==
    {r.c : r \in Locust_PlayerUser_get_random_session_id(c)}

Locust_PlayerUser_list_messages(c) ==
    Bind(Locust_PlayerUser_get_random_session_id(c), LAMBDA r :
        IF ~Truthy(r.v) THEN {r.c}
        ELSE {Locust_checked(r.c, "player_list_messages", "GET", "/messages/session/{}",
                             r.v, None, {200, 204}, res) : res \in PlainResponses})

Locust_PlayerUser_list_tickets(c) ==
    {Locust_checked(c, "player_list_tickets", "GET", "/tickets", None, None, {200}, res) :
         res \in PlainResponses}

Locust_PlayerUser_ticket_detail(c) ==
    Bind(Locust_PlayerUser_get_any_ticket_id(c), LAMBDA t :
        IF ~Truthy(t.v) THEN {t.c}
        ELSE {Locust_checked(t.c, "player_ticket_detail", "GET", "/tickets/{}",
                             t.v, None, {200}, res) : res \in PlainResponses})

Locust_PlayerUser_query_open_tickets(c) ==
    Bind(Locust_get_any_game_id(c, "game_id"), LAMBDA g :
        LET game_id == Or(g.v, player_game_id)
        IN  IF ~Truthy(game_id) THEN {g.c}
            ELSE {Locust_checked(g.c, "player_query_open_tickets", "POST",
                                 "/tickets/query-open-tickets", None,
                                 JDict("gameId" :> game_id), OK_POST_CODES, res) :
                      res \in PlainResponses})

Locust_PlayerUser_close_session_by_player(c) ==
    Bind(Locust_PlayerUser_get_random_session_id(c), LAMBDA r :
        IF ~Truthy(r.v) THEN {r.c}
        ELSE {Locust_checked(r.c, "player_close_session", "PATCH", "/sessions/{}/close-player",
                             r.v, None, {200, 204}, res) : res \in PlainResponses})

-----------------------------------------------------------------------------
(* ai_message_user.py: AIMessageUser                                       *)

\* the answer to POST /sessions of the setup
AIMessageUser_on_start_session(c, tid, s) ==
    LET c1 == Request(c, "ai_setup_session", "POST", "/sessions", None,
                      JDict("ticketId" :> tid), None, s)
    IN  IF s.status_code \notin OK_POST_CODES THEN c1
        ELSE IF ~IsDict(extract_data(s)) THEN Raise(c1)
        ELSE SetField(c1, "sid", Get(extract_data(s), "id"))

\* the answer to POST /tickets of the setup
AIMessageUser_on_start_ticket(c, gid, iid, t) ==
    LET c1 == Request(c, "ai_setup_ticket", "POST", "/tickets", None,
                      TicketPayload(gid, iid), None, t)
    IN  IF t.status_code \notin OK_POST_CODES THEN {c1}
        ELSE IF ~IsDict(extract_data(t)) THEN {Raise(c1)}
        ELSE {AIMessageUser_on_start_session(c1, Get(extract_data(t), "id"), s) :
                  s \in SessionResponses}

AIMessageUser_setup(c) ==
    Bind(get_any_game_id(c), LAMBDA g :
    Bind(get_any_issue_type_id(g.c), LAMBDA i :
        IF ~Truthy(g.v) \/ ~Truthy(i.v) THEN {i.c}
        ELSE UNION {AIMessageUser_on_start_ticket(i.c, g.v, i.v, t) : t \in TicketResponses}))

AIMessageUser_on_start(c) ==
    LET c0 == SetField(c, "sid", Or(AI_SESSION_ID, None))
    IN  IF Truthy(c0.f.sid) THEN {c0}
        ELSE \* random.random() > prob: the setup is skipped
             {c0} \cup AIMessageUser_setup(c0)

\* a rapid_send that runs the setup again when no session is held
AIMessageUser_rapid_send_retrying(c) ==
    IF ~Truthy(c.f.sid) THEN AIMessageUser_setup(c)
    ELSE {Request(c, "ai_send_msg", "POST", "/messages", None,
                  JDict("sessionId" :> c.f.sid), None, res) : res \in IgnoredResponses}

AIMessageUser_rapid_send(c) ==
    IF ~Truthy(c.f.sid) THEN {c}
    ELSE {Request(c, "ai_send_msg", "POST", "/messages", None,
                  JDict("sessionId" :> c.f.sid), None, res) : res \in IgnoredResponses}

-----------------------------------------------------------------------------
(* player_query_user.py: PlayerQueryUser                                   *)

\* the answer to POST /sessions of the setup
PlayerQueryUser_on_start_session(c, tid, s) ==
    LET c1 == Request(c, "player_query_setup_session", "POST", "/sessions", None,
                      JDict("ticketId" :> tid), None, s)
    IN  IF s.status_code \notin OK_POST_CODES THEN c1
        ELSE IF ~IsDict(extract_data(s)) THEN Raise(c1)
        ELSE SetField(c1, "session_id", Get(extract_data(s), "id"))

\* the answer to POST /tickets of the setup
PlayerQueryUser_on_start_ticket(c, gid, iid, t) ==
    LET c1 == Request(c, "player_query_setup_ticket", "POST", "/tickets", None,
                      TicketPayload(gid, iid), None, t)
    IN  IF t.status_code \notin OK_POST_CODES THEN {c1}
        ELSE IF ~IsDict(extract_data(t)) THEN {Raise(c1)}
        ELSE {PlayerQueryUser_on_start_session(c1, Get(extract_data(t), "id"), s) :
                  s \in SessionResponses}

PlayerQueryUser_setup(c) ==
    Bind(get_any_game_id(c), LAMBDA g :
    Bind(get_any_issue_type_id(g.c), LAMBDA i :
        IF ~Truthy(g.v) \/ ~Truthy(i.v) THEN {i.c}
        ELSE UNION {PlayerQueryUser_on_start_ticket(i.c, g.v, i.v, t) : t \in TicketResponses}))

PlayerQueryUser_on_start(c) ==
    LET c0 == SetField(c, "session_id", None)
    IN  PlayerQueryUser_setup(c0)

PlayerQueryUser_poll_msgs(c) ==
    IF ~Truthy(c.f.session_id) THEN {c}
    ELSE {Request(c, "player_query_poll_msgs", "GET", "/messages/session/{}",
                  c.f.session_id, None, None, res) : res \in IgnoredResponses}

PlayerQueryUser_session_detail(c) ==
    IF ~Truthy(c.f.session_id) THEN {c}
    ELSE {Request(c, "player_query_session_detail", "GET", "/sessions/{}",
                  c.f.session_id, None, None, res) : res \in IgnoredResponses}

-----------------------------------------------------------------------------
(* pressure_message_user.py: PressureMessageUser                           *)

\* the answer to POST /sessions of the setup
PressureMessageUser_on_start_session(c, tid, s) ==
    LET c1 == Request(c, "pressure_setup_session", "POST", "/sessions", None,
                      JDict("ticketId" :> tid), None, s)
    IN  IF s.status_code \notin OK_POST_CODES THEN c1
        ELSE IF ~IsDict(extract_data(s)) THEN Raise(c1)
        ELSE SetField(c1, "sid", Get(extract_data(s), "id"))

\* the answer to POST /tickets of the setup
PressureMessageUser_on_start_ticket(c, gid, iid, t) ==
    LET c1 == Request(c, "pressure_setup_ticket", "POST", "/tickets", None,
                      TicketPayload(gid, iid), None, t)
    IN  IF t.status_code \notin OK_POST_CODES THEN {c1}
        ELSE IF ~IsDict(extract_data(t)) THEN {Raise(c1)}
        ELSE {PressureMessageUser_on_start_session(c1, Get(extract_data(t), "id"), s) :
                  s \in SessionResponses}

PressureMessageUser_setup(c) ==
    Bind(get_any_game_id(c), LAMBDA g :
    Bind(get_any_issue_type_id(g.c), LAMBDA i :
        IF ~Truthy(g.v) \/ ~Truthy(i.v) THEN {i.c}
        ELSE UNION {PressureMessageUser_on_start_ticket(i.c, g.v, i.v, t) : t \in TicketResponses}))

PressureMessageUser_on_start(c) ==
    LET c0 == SetField(c, "sid", Or(AI_SESSION_ID, None))
    IN  IF Truthy(c0.f.sid) THEN {c0}
        ELSE \* random.random() > prob: the setup is skipped
             {c0} \cup PressureMessageUser_setup(c0)

PressureMessageUser_send_core_message(c) ==
    IF ~Truthy(c.f.sid) THEN {c}
    ELSE {Request(c, "pressure_send_message", "POST", "/sessions/{}/messages",
                  c.f.sid, None, None, res) : res \in IgnoredResponses}

-----------------------------------------------------------------------------
(* The socketio client of the WebSocket actors                             *)
(* A call of the client is recorded like a request, with method "WS" and   *)
(* the outcome (returned or raised) as its answer.  The client calls the   *)
(* handlers the actor registered: `connect` once the connection is up,     *)
(* `connect_error` when the connection is refused, which it may do before  *)
(* it raises.                                                              *)

\* self.sio: a client that is not connected, a client that is connected
SioClosed == JStr("closed")
SioOpen == JStr("open")

WsReturned == Resp(0, JStr("returned"))
WsRaised == Resp(0, JStr("raised"))

WsCall(c, op, res) == Request(c, op, "WS", op, None, None, None, res)

\* events.request.fire(request_type="WS", name=..., [exception=...])
FireWs(c, name, failed) ==
    [c EXCEPT !.events = Append(@, [request_type |-> "WS", name |-> name, status_code |-> 0,
                                    text |-> IF failed THEN JStr("exception") ELSE None])]

\* self.sio.connect(...): registered tells whether the actor registered its handlers
sio_connect(c, registered) ==
    LET up == SetField(WsCall(c, "connect", WsReturned), "sio", SioOpen)
        refused == WsCall(c, "connect", WsRaised)
    IN  IF c.f.sio = SioOpen THEN {Ret(refused, False)}
        ELSE {Ret(IF registered THEN FireWs(up, "ws_connect", FALSE) ELSE up, True),
              Ret(refused, False)}
             \cup (IF registered THEN {Ret(FireWs(refused, "ws_connect_error", TRUE), False)}
                   ELSE {})

\* self.sio.emit("ping")
sio_emit(c) ==
    IF c.f.sio = SioOpen
    THEN {Ret(WsCall(c, "emit", WsReturned), True), Ret(WsCall(c, "emit", WsRaised), False)}
    ELSE {Ret(WsCall(c, "emit", WsRaised), False)}

\* self.sio.disconnect()
sio_disconnect(c) == SetField(WsCall(c, "disconnect", WsReturned), "sio", SioClosed)

\* gevent.sleep(...)
gevent_sleep(c) ==
    {Ret(WsCall(c, "sleep", WsReturned), True), Ret(WsCall(c, "sleep", WsRaised), False)}

-----------------------------------------------------------------------------
(* ws_user.py: WsUser                                                      *)

WsUser_on_start(c) ==
    {IF r.v = True THEN r.c ELSE FireWs(r.c, "ws_connect_fail", TRUE) :
         r \in sio_connect(SetField(c, "sio", SioClosed), TRUE)}

WsUser_on_stop(c) == {sio_disconnect(c)}

WsUser_heartbeat(c) ==
    {IF r.v = True THEN r.c ELSE FireWs(r.c, "ws_heartbeat_fail", TRUE) : r \in sio_emit(c)}

-----------------------------------------------------------------------------
(* pressure_ws_user.py: PressureWsUser                                     *)

PressureWsUser_on_start(c) == {r.c : r \in sio_connect(SetField(c, "sio", SioClosed), FALSE)}

PressureWsUser_on_stop(c) == {sio_disconnect(c)}

PressureWsUser_heartbeat(c) == {r.c : r \in sio_emit(c)}

-----------------------------------------------------------------------------
(* locustfile_plan.py: WsUser                                              *)

Plan_WsUser_on_start(c) == {SetField(c, "sio", SioClosed)}

\* the statements of the try block after the connect
Plan_WsUser_keepalive_connected(c) ==
    Bind(sio_emit(c), LAMBDA e :
        IF e.v = False THEN {FireWs(e.c, "ws_fail", TRUE)}
        ELSE Bind(gevent_sleep(e.c), LAMBDA z :
            IF z.v = False THEN {FireWs(z.c, "ws_fail", TRUE)}
            ELSE {sio_disconnect(z.c)}))

Plan_WsUser_keepalive(c) ==
    Bind(sio_connect(c, TRUE), LAMBDA r :
        IF r.v = False THEN {FireWs(r.c, "ws_fail", TRUE)}
        ELSE Plan_WsUser_keepalive_connected(r.c))

-----------------------------------------------------------------------------
(* locustfile_plan.py: PlayerUser                                          *)
(* BaseHttpUser of this file has the text of the one of common.py, so its  *)
(* lookups are get_any_game_id and get_any_issue_type_id above.            *)

\* range(5): the number of polls of full_flow
MaxPolls == 5

Message(i) == JDict("id" :> JStr(i))

\* answers to GET /messages/session/{sid}
PollResponses ==
    { Resp(200, Wrapped(JList(<<Message("m1"), Message("m2")>>))),
      Resp(200, Wrapped(JList(<<Message("m1")>>))),
      Resp(500, Wrapped(JList(<<Message("m1"), Message("m2")>>))) }

\* on_start sets player_id only, which no request of the model shows
Plan_PlayerUser_on_start(c) == {c}

Plan_PlayerUser_create_ticket_posted(c, gid, iid, res) ==
    LET c1 == Request(c, "player_create_ticket", "POST", "/tickets", None,
                      TicketPayload(gid, iid), None, res)
        data == Or(extract_data(res), EmptyDict)
    IN  IF res.status_code \notin OK_POST_CODES
        THEN Ret(record_failure(c1, "player_create_ticket", res), None)
        ELSE Ret(c1, IdOf(data))

Plan_PlayerUser_create_ticket(c) ==
    Bind(get_any_game_id(c), LAMBDA g :
    Bind(get_any_issue_type_id(g.c), LAMBDA i :
        IF ~Truthy(g.v) \/ ~Truthy(i.v) THEN {Ret(i.c, None)}
        ELSE {Plan_PlayerUser_create_ticket_posted(i.c, g.v, i.v, res) :
                  res \in TicketResponses}))

Plan_PlayerUser_create_session_posted(c, ticket_id, res) ==
    LET c1 == Request(c, "player_create_session", "POST", "/sessions", None,
                      JDict("ticketId" :> ticket_id), None, res)
        data == Or(extract_data(res), EmptyDict)
    IN  IF res.status_code \notin OK_POST_CODES
        THEN Ret(record_failure(c1, "player_create_session", res), None)
        ELSE Ret(c1, IdOf(data))

Plan_PlayerUser_create_session(c, ticket_id) ==
    {Plan_PlayerUser_create_session_posted(c, ticket_id, res) : res \in IdResponses({"s1"})}

\* a poll that ends the loop on any answer with status 200
Plan_PlayerUser_poll_answered_any_200(c, sid, res) ==
    LET c1 == Request(c, "player_poll_msgs", "GET", "/messages/session/{}", sid,
                      None, None, res)
    IN  IF res.status_code = 200 THEN Ret(c1, True) ELSE Ret(c1, False)

\* one turn of the loop of full_flow; its value tells whether the loop breaks
Plan_PlayerUser_poll_answered(c, sid, res) ==
    LET c1 == Request(c, "player_poll_msgs", "GET", "/messages/session/{}", sid,
                      None, None, res)
        msgs == Or(extract_data(res), EmptyList)
    IN  IF res.status_code = 200 /\ IsList(msgs) /\ Len(msgs.l) > 1
        THEN Ret(c1, True)
        ELSE Ret(c1, False)

\* the turns of the loop that are left when n of them are
RECURSIVE Plan_PlayerUser_poll(_, _, _)
Plan_PlayerUser_poll(c, sid, n) ==
    IF n = 0 THEN {c}
    ELSE LET turns == {Plan_PlayerUser_poll_answered(c, sid, res) : res \in PollResponses}
         IN  {r.c : r \in {t \in turns : t.v = True}}
             \cup UNION {Plan_PlayerUser_poll(r.c, sid, n - 1) :
                            r \in {t \in turns : t.v = False}}

\* full_flow once ticket and session are created
Plan_PlayerUser_full_flow_created(c, sid) ==
    LET sent == {Request(c, "player_send_msg", "POST", "/messages", None,
                         JDict("sessionId" :> sid), None, res) :
                     res \in IgnoredResponses}
        polled == UNION {Plan_PlayerUser_poll(c1, sid, MaxPolls) : c1 \in sent}
    IN  {Request(c2, "player_session_detail", "GET", "/sessions/{}", sid,
                 None, None, res) : c2 \in polled, res \in IgnoredResponses}

Plan_PlayerUser_full_flow(c) ==
    Bind(Plan_PlayerUser_create_ticket(c), LAMBDA t :
        IF ~Truthy(t.v) THEN {t.c}
        ELSE Bind(Plan_PlayerUser_create_session(t.c, t.v), LAMBDA ss :
            IF ~Truthy(ss.v) THEN {ss.c}
            ELSE Plan_PlayerUser_full_flow_created(ss.c, ss.v)))

-----------------------------------------------------------------------------
(* The scheduler of the load-generation framework                          *)

EnvValues(v) == {None, JStr(v)}

\* no handler has just run
NoRecord == [actor |-> "", handler |-> "", pre |-> NoFields,
             calls |-> <<>>, events |-> <<>>, raised |-> FALSE]

Classes == {"PlayerUser", "PlayerCoreUser", "Locust_PlayerUser",
            "AIMessageUser", "PlayerQueryUser", "PressureMessageUser",
            "AuthUser", "AdminUser", "WsUser", "PressureWsUser", "Plan_WsUser"}

\* the classes that read AI_SESSION_ID
StressClasses == {"AIMessageUser", "PressureMessageUser"}

\* one actor of any class is spawned; the other one is not
Init ==
    /\ cls \in {f \in [Actors -> Classes \cup {"none"}] :
                    f["u1"] # "none" /\ f["u2"] = "none"}
    /\ pc = [a \in Actors |-> "new"]
    /\ user = [a \in Actors |-> NoFields]
    /\ ENV_GAME_ID \in EnvValues("gE")
    /\ ENV_ISSUE_TYPE_ID \in EnvValues("iE")
    /\ AI_SESSION_ID \in IF \E a \in Actors : cls[a] \in StressClasses
                        THEN EnvValues("sE") ELSE {None}
    /\ last = NoRecord

\* the classes of the runs in which two actors are spawned
PairClasses == {"PlayerUser", "AuthUser", "AdminUser"}

\* two actors are spawned, of the same class or of different ones
InitPair ==
    /\ cls \in [Actors -> PairClasses]
    /\ pc = [a \in Actors |-> "new"]
    /\ user = [a \in Actors |-> NoFields]
    /\ ENV_GAME_ID = None
    /\ ENV_ISSUE_TYPE_ID = None
    /\ AI_SESSION_ID = None
    /\ last = NoRecord

\* a run in which token and headers are attributes of the class, shared by the actors
Run_shared_token(a, handler, results) ==
    \E c \in results :
        /\ user' = [b \in Actors |->
                        IF b = a THEN c.f
                        ELSE [user[b] EXCEPT !.token = c.f.token, !.headers = c.f.headers]]
        /\ last' = [actor |-> a, handler |-> handler, pre |-> user[a],
                    calls |-> c.calls, events |-> c.events, raised |-> c.raised]

\* the framework runs `handler` of actor a to its end; results are its outcomes
Run(a, handler, results) ==
    \E c \in results :
        /\ user' = [user EXCEPT ![a] = c.f]
        /\ last' = [actor |-> a, handler |-> handler, pre |-> user[a],
                    calls |-> c.calls, events |-> c.events, raised |-> c.raised]

\* User.run: on_start first; an error raised by on_start ends the actor
Start(a, c_name, results) ==
    /\ last = NoRecord
    /\ cls[a] = c_name
    /\ pc[a] = "new"
    /\ Run(a, "on_start", results)
    /\ pc' = [pc EXCEPT ![a] = IF last'.raised THEN "dead" ELSE "running"]
    /\ UNCHANGED <<cls, ENV_GAME_ID, ENV_ISSUE_TYPE_ID, AI_SESSION_ID>>

\* TaskSet.run: a task of a running actor; an error raised by a task is
\* logged by the framework and the actor goes on with its next task
Task(a, c_name, handler, results) ==
    /\ last = NoRecord
    /\ cls[a] = c_name
    /\ pc[a] = "running"
    /\ Run(a, handler, results)
    /\ UNCHANGED <<cls, pc, ENV_GAME_ID, ENV_ISSUE_TYPE_ID, AI_SESSION_ID>>

\* User.stop: on_stop of a running actor, after which the actor runs no handler
Stop(a, c_name, results) ==
    /\ last = NoRecord
    /\ cls[a] = c_name
    /\ pc[a] = "running"
    /\ Run(a, "on_stop", results)
    /\ pc' = [pc EXCEPT ![a] = "stopped"]
    /\ UNCHANGED <<cls, ENV_GAME_ID, ENV_ISSUE_TYPE_ID, AI_SESSION_ID>>

\* wait_time: the pause between two handlers, which forgets the record of the last one
Wait ==
    /\ last # NoRecord
    /\ last' = NoRecord
    /\ UNCHANGED <<cls, pc, user, ENV_GAME_ID, ENV_ISSUE_TYPE_ID, AI_SESSION_ID>>

PlayerUserNext(a) ==
    \/ Start(a, "PlayerUser", PlayerUser_on_start(Ctx(user[a])))
    \/ Task(a, "PlayerUser", "send_message", PlayerUser_send_message(Ctx(user[a])))
    \/ Task(a, "PlayerUser", "create_session_task",
            PlayerUser_create_session_task(Ctx(user[a])))
    \/ Task(a, "PlayerUser", "list_messages", PlayerUser_list_messages(Ctx(user[a])))
    \/ Task(a, "PlayerUser", "session_detail", PlayerUser_session_detail(Ctx(user[a])))

PlayerCoreUserNext(a) ==
    \/ Start(a, "PlayerCoreUser", PlayerCoreUser_on_start(Ctx(user[a])))
    \/ Task(a, "PlayerCoreUser", "send_message", PlayerCoreUser_send_message(Ctx(user[a])))
    \/ Task(a, "PlayerCoreUser", "create_session_task",
            PlayerCoreUser_create_session_task(Ctx(user[a])))

LocustPlayerUserNext(a) ==
    \/ Start(a, "Locust_PlayerUser", Locust_PlayerUser_on_start(Ctx(user[a])))
    \/ Task(a, "Locust_PlayerUser", "send_message",
            Locust_PlayerUser_send_message(Ctx(user[a])))
    \/ Task(a, "Locust_PlayerUser", "create_ticket",
            Locust_PlayerUser_create_ticket(Ctx(user[a])))
    \/ Task(a, "Locust_PlayerUser", "list_sessions_task",
            Locust_PlayerUser_list_sessions_task(Ctx(user[a])))
    \/ Task(a, "Locust_PlayerUser", "list_messages",
            Locust_PlayerUser_list_messages(Ctx(user[a])))
    \/ Task(a, "Locust_PlayerUser", "list_tickets",
            Locust_PlayerUser_list_tickets(Ctx(user[a])))
    \/ Task(a, "Locust_PlayerUser", "ticket_detail",
            Locust_PlayerUser_ticket_detail(Ctx(user[a])))
    \/ Task(a, "Locust_PlayerUser", "query_open_tickets",
            Locust_PlayerUser_query_open_tickets(Ctx(user[a])))
    \/ Task(a, "Locust_PlayerUser", "close_session_by_player",
            Locust_PlayerUser_close_session_by_player(Ctx(user[a])))

AIMessageUserNext(a) ==
    \/ Start(a, "AIMessageUser", AIMessageUser_on_start(Ctx(user[a])))
    \/ Task(a, "AIMessageUser", "rapid_send", AIMessageUser_rapid_send(Ctx(user[a])))

PlayerQueryUserNext(a) ==
    \/ Start(a, "PlayerQueryUser", PlayerQueryUser_on_start(Ctx(user[a])))
    \/ Task(a, "PlayerQueryUser", "poll_msgs", PlayerQueryUser_poll_msgs(Ctx(user[a])))
    \/ Task(a, "PlayerQueryUser", "session_detail",
            PlayerQueryUser_session_detail(Ctx(user[a])))

PressureMessageUserNext(a) ==
    \/ Start(a, "PressureMessageUser", PressureMessageUser_on_start(Ctx(user[a])))
    \/ Task(a, "PressureMessageUser", "send_core_message",
            PressureMessageUser_send_core_message(Ctx(user[a])))

\* AuthUser has no on_start of its own: User.on_start does nothing
AuthUserNext(a) ==
    \/ Start(a, "AuthUser", {Ctx(user[a])})
    \/ Task(a, "AuthUser", "login_logout", AuthUser_login_logout(Ctx(user[a])))

AdminUserNext(a) ==
    \/ Start(a, "AdminUser", AdminUser_on_start(Ctx(user[a])))
    \/ Task(a, "AdminUser", "dashboard", AdminUser_dashboard(Ctx(user[a])))
    \/ Task(a, "AdminUser", "reply_any", AdminUser_reply_any(Ctx(user[a])))

WsUserNext(a) ==
    \/ Start(a, "WsUser", WsUser_on_start(Ctx(user[a])))
    \/ Task(a, "WsUser", "heartbeat", WsUser_heartbeat(Ctx(user[a])))
    \/ Stop(a, "WsUser", WsUser_on_stop(Ctx(user[a])))

PressureWsUserNext(a) ==
    \/ Start(a, "PressureWsUser", PressureWsUser_on_start(Ctx(user[a])))
    \/ Task(a, "PressureWsUser", "heartbeat", PressureWsUser_heartbeat(Ctx(user[a])))
    \/ Stop(a, "PressureWsUser", PressureWsUser_on_stop(Ctx(user[a])))

\* the WsUser of locustfile_plan.py has no on_stop of its own
PlanWsUserNext(a) ==
    \/ Start(a, "Plan_WsUser", Plan_WsUser_on_start(Ctx(user[a])))
    \/ Task(a, "Plan_WsUser", "keepalive", Plan_WsUser_keepalive(Ctx(user[a])))
    \/ Stop(a, "Plan_WsUser", {Ctx(user[a])})

Next ==
    \/ Wait
    \/ \E a \in Actors :
        \/ PlayerUserNext(a)
        \/ PlayerCoreUserNext(a)
        \/ LocustPlayerUserNext(a)
        \/ AIMessageUserNext(a)
        \/ PlayerQueryUserNext(a)
        \/ PressureMessageUserNext(a)
        \/ AuthUserNext(a)
        \/ AdminUserNext(a)
        \/ WsUserNext(a)
        \/ PressureWsUserNext(a)
        \/ PlanWsUserNext(a)

Spec == Init /\ [][Next]_vars

\* the steps of the runs with two actors
NextPair ==
    \/ Wait
    \/ \E a \in Actors :
        \/ PlayerUserNext(a)
        \/ AuthUserNext(a)
        \/ AdminUserNext(a)

SpecPair == InitPair /\ [][NextPair]_vars

\* the runs of the plan scenario in which one PlayerUser is spawned
InitPlan ==
    /\ cls = [a \in Actors |-> IF a = "u1" THEN "Plan_PlayerUser" ELSE "none"]
    /\ pc = [a \in Actors |-> "new"]
    /\ user = [a \in Actors |-> NoFields]
    /\ ENV_GAME_ID \in EnvValues("gE")
    /\ ENV_ISSUE_TYPE_ID \in EnvValues("iE")
    /\ AI_SESSION_ID = None
    /\ last = NoRecord

PlanPlayerUserNext(a) ==
    \/ Start(a, "Plan_PlayerUser", Plan_PlayerUser_on_start(Ctx(user[a])))
    \/ Task(a, "Plan_PlayerUser", "full_flow", Plan_PlayerUser_full_flow(Ctx(user[a])))

NextPlan ==
    \/ Wait
    \/ \E a \in Actors : PlanPlayerUserNext(a)

SpecPlan == InitPlan /\ [][NextPlan]_vars

-----------------------------------------------------------------------------
(* Vocabulary of the properties                                            *)

PlayerClasses == {"PlayerUser", "PlayerCoreUser", "Locust_PlayerUser"}

\* the class of the actor whose handler has just run
LastCls == IF last.actor \in Actors THEN cls[last.actor] ELSE "none"

\* the fields of that actor after the handler
After == user[last.actor]

CallIndices == DOMAIN last.calls

IsTicketPost(call) == call.method = "POST" /\ call.url = "/tickets"
IsSessionPost(call) == call.method = "POST" /\ call.url = "/sessions"
IsMessagePost(call) == call.method = "POST" /\ call.url = "/messages"
IsLookup(call) == call.method = "GET" /\ call.url \in {"/games", "/games/enabled", "/issue-types"}
IsListing(call) == call.method = "GET" /\ call.url \in {"/sessions", "/tickets"}

\* a call that session resolution may issue
IsResolutionCall(call) ==
    IsTicketPost(call) \/ IsSessionPost(call) \/ IsLookup(call) \/ IsListing(call)

TicketPosts == {i \in CallIndices : IsTicketPost(last.calls[i])}
SessionPosts == {i \in CallIndices : IsSessionPost(last.calls[i])}

Accepted(call) == call.res.status_code \in {200, 201, 204}

\* the id that an answer carries, as the source reads it
AnswerId(call) ==
    LET body == call.res.body
        data == IF body = Unparsable THEN None
                ELSE IF body.k = "dict" /\ "data" \in DOMAIN body.m THEN body.m["data"]
                ELSE body
    IN  IF data.k = "dict" /\ "id" \in DOMAIN data.m THEN data.m["id"] ELSE None

Populated(v) == v \notin {None, JStr("")}

\* a creation call that gave no id
CreationFailed(call) == ~Accepted(call) \/ ~Populated(AnswerId(call))

\* the session id that a call carries in its body or in its path
CarriesSession(call) ==
    \/ call.json.k = "dict" /\ "sessionId" \in DOMAIN call.json.m
    \/ call.url \in {"/messages/session/{}", "/sessions/{}", "/sessions/{}/close-player"}
CarriedSession(call) ==
    IF call.json.k = "dict" /\ "sessionId" \in DOMAIN call.json.m
    THEN call.json.m["sessionId"] ELSE call.path

\* the ticket id that a session creation carries
CarriedTicket(call) == call.json.m["ticketId"]

\* the handlers that resolve a session by the guard on the cached id
GuardedHandlers ==
    {"send_message", "list_sessions_task", "list_messages", "session_detail",
     "close_session_by_player"}

\* the handlers that run a session resolution attempt
ResolvingHandlers == {"send_message", "create_session_task"}

-----------------------------------------------------------------------------
(* C1: with a populated session cache, resolving the session issues no     *)
(* network call (no lookup, no listing, no ticket or session creation) and *)
(* yields the cached id: every call of the handler that carries a session  *)
(* id carries the cached one, and the cache is left as it was.             *)
C1_CachedSessionNoNetwork ==
    (LastCls \in PlayerClasses /\ last.handler \in GuardedHandlers
        /\ Populated(last.pre.session_id))
    => /\ \A i \in CallIndices : ~IsResolutionCall(last.calls[i])
       /\ \A i \in CallIndices :
            CarriesSession(last.calls[i])
            => CarriedSession(last.calls[i]) = last.pre.session_id
       /\ After.session_id = last.pre.session_id
       /\ last.handler = "send_message"
          => /\ last.calls # <<>>
             /\ IsMessagePost(last.calls[1])
             /\ CarriedSession(last.calls[1]) = last.pre.session_id

C1_Witness ==
    /\ LastCls = "Locust_PlayerUser"
    /\ last.handler = "send_message"
    /\ Populated(last.pre.session_id)
    /\ Len(last.calls) = 1

(* C2: with an empty session cache, a handler of a player scenario issues  *)
(* at most one POST /tickets and at most one POST /sessions; once one of   *)
(* them has failed, no ticket or session creation follows in the handler;  *)
(* when the session creation gave an id, send_message goes on with it.     *)
C2_AtMostOneTicketAndSessionCall ==
    (LastCls \in PlayerClasses /\ ~Populated(last.pre.session_id))
    => /\ Cardinality(TicketPosts) <= 1
       /\ Cardinality(SessionPosts) <= 1
       /\ \A i \in TicketPosts \cup SessionPosts :
            CreationFailed(last.calls[i])
            => \A j \in CallIndices :
                  j > i => ~IsTicketPost(last.calls[j]) /\ ~IsSessionPost(last.calls[j])
       /\ \A i \in SessionPosts :
            (~CreationFailed(last.calls[i]) /\ last.handler = "send_message")
            => /\ i < Len(last.calls)
               /\ IsMessagePost(last.calls[i + 1])
               /\ CarriedSession(last.calls[i + 1]) = AnswerId(last.calls[i])

C2_Witness ==
    /\ LastCls \in PlayerClasses
    /\ last.handler = "send_message"
    /\ ~Populated(last.pre.session_id)
    /\ Cardinality(TicketPosts) = 1
    /\ Cardinality(SessionPosts) = 1
    /\ \E i \in SessionPosts : last.calls[i].res.status_code = 500 /\ i = Len(last.calls)

(* C3: when the POST /tickets of a session resolution attempt is answered  *)
(* with a status outside {200, 201, 204}, the attempt issues no            *)
(* POST /sessions and leaves the ticket cache and the session cache empty. *)
C3_RejectedTicketLeavesCacheEmpty ==
    (last.handler \in ResolvingHandlers \cup {"on_start"}
        /\ \E i \in TicketPosts : ~Accepted(last.calls[i]))
    => /\ SessionPosts = {}
       /\ ~Populated(After.ticket_id)
       /\ ~Populated(After.session_id)
       /\ ~Populated(After.sid)

C3_Witness ==
    /\ last.handler = "create_session_task"
    /\ \E i \in TicketPosts :
          /\ last.calls[i].res.status_code = 404
          /\ Populated(AnswerId(last.calls[i]))

(* C4: no failure event fired by a handler carries the status 401 or 429.  *)
C4_NoFailureEventFor401Or429 ==
    \A i \in DOMAIN last.events : last.events[i].status_code \notin {401, 429}

C4_Witness ==
    /\ LastCls = "PlayerUser"
    /\ \E i \in TicketPosts : last.calls[i].res.status_code = 429
    /\ last.events = <<>>

(* C5: in every player scenario, each answer to a ticket creation or a     *)
(* session creation whose status is outside {200, 201, 204} and is neither *)
(* 401 nor 429 is reported by exactly one failure event that carries the   *)
(* status and the body of the answer.                                      *)
C5_EveryRejectedCreationReported ==
    LastCls \in PlayerClasses
    => \A i \in TicketPosts \cup SessionPosts :
          last.calls[i].res.status_code \notin {200, 201, 204, 401, 429}
          => Cardinality({e \in DOMAIN last.events :
                            /\ last.events[e].name = last.calls[i].name
                            /\ last.events[e].status_code = last.calls[i].res.status_code
                            /\ last.events[e].text = last.calls[i].res.body}) = 1

(* C6: an actor whose auth headers are not populated issues no network     *)
(* call when it resolves a session.                                        *)
C6_UnauthenticatedNoNetwork ==
    (LastCls \in PlayerClasses
        /\ last.handler \in ResolvingHandlers \cup GuardedHandlers
        /\ ~Populated(last.pre.headers))
    => last.calls = <<>>

(* C7: a populated session cache is never emptied by a later handler of    *)
(* the actor.                                                              *)
C7_SessionCacheNeverEmptied ==
    [][\A a \in Actors : Populated(user[a].session_id) => Populated(user'[a].session_id)]_vars

(* C8: when a session creation of a resolution attempt is accepted and     *)
(* carries a non-empty id, that id is the cached session id afterwards.    *)
C8_CreatedSessionIsCached ==
    (LastCls \in PlayerClasses /\ last.handler \in ResolvingHandlers)
    => \A i \in SessionPosts :
          ~CreationFailed(last.calls[i]) => After.session_id = AnswerId(last.calls[i])

\* a resolution attempt that had to resolve a ticket and did not get one
TicketResolutionFailed ==
    /\ LastCls \in PlayerClasses
    /\ last.handler \in ResolvingHandlers
    /\ IF LastCls = "Locust_PlayerUser"
       THEN /\ \E i \in CallIndices : last.calls[i].name = "player_list_tickets_for_detail"
            /\ \A i \in SessionPosts : ~Populated(CarriedTicket(last.calls[i]))
       ELSE /\ ~Populated(last.pre.ticket_id)
            /\ last.handler = "create_session_task" \/ ~Populated(last.pre.session_id)
            /\ ~Populated(After.ticket_id)

CacheFields == {"game_id", "issue_type_id", "ticket_id", "session_id"}

(* C9 as claimed: a failed ticket resolution leaves the cached game id,    *)
(* issue-type id, ticket id and session id as they were.                   *)
C9_FailedTicketResolutionChangesNoCache ==
    TicketResolutionFailed => \A f \in CacheFields : After[f] = last.pre[f]

LookupOf(f) == IF f = "game_id" THEN {"/games", "/games/enabled"} ELSE {"/issue-types"}

(* C9: a failed ticket resolution returns a failure (no POST /sessions and *)
(* no message follow), leaves the session cache as it was and the ticket   *)
(* cache empty; a populated game id or issue-type id is kept, and an empty *)
(* one changes only to the id that a lookup of the attempt answered with   *)
(* status 200.                                                             *)
C9_FailedTicketResolutionFrame ==
    TicketResolutionFailed
    => /\ SessionPosts = {}
       /\ \A i \in CallIndices : ~IsMessagePost(last.calls[i])
       /\ After.session_id = last.pre.session_id
       /\ ~Populated(After.ticket_id)
       /\ \A f \in {"game_id", "issue_type_id"} :
            /\ Populated(last.pre[f]) => After[f] = last.pre[f]
            /\ After[f] # last.pre[f]
               => /\ Populated(After[f])
                  /\ \E i \in CallIndices :
                        /\ last.calls[i].url \in LookupOf(f)
                        /\ last.calls[i].res.status_code = 200

C9_Witness ==
    /\ TicketResolutionFailed
    /\ LastCls = "PlayerUser"
    /\ Populated(After.game_id) /\ ~Populated(last.pre.game_id)
    /\ Populated(After.issue_type_id) /\ ~Populated(last.pre.issue_type_id)
    /\ \E i \in TicketPosts : last.calls[i].res.status_code = 500

(* C10: no handler ends with an unhandled error, whatever the backend      *)
(* answers, and no actor is ended by one.                                  *)
C10_NoHandlerRaises ==
    /\ ~last.raised
    /\ \A a \in Actors : pc[a] # "dead"

\* the fields that hold the credentials and the caches of an actor
PrivateFields == {"token", "headers", "game_id", "issue_type_id", "ticket_id", "session_id"}

AttemptRan ==
    /\ LastCls \in PlayerClasses
    /\ last.handler \in ResolvingHandlers
    /\ last.handler = "create_session_task" \/ ~Populated(last.pre.session_id)

(* C12: a ticket that a resolution attempt created stays cached when the   *)
(* attempt got no session; and an attempt that starts with an empty        *)
(* session cache and a cached ticket id issues no POST /tickets and no     *)
(* game or issue-type lookup, and its POST /sessions carries exactly the   *)
(* cached ticket id.                                                       *)
C12_CachedTicketIsReused ==
    AttemptRan
    => /\ \A i \in TicketPosts :
            (~CreationFailed(last.calls[i]) /\ ~Populated(After.session_id))
            => After.ticket_id = AnswerId(last.calls[i])
       /\ Populated(last.pre.ticket_id)
          => /\ TicketPosts = {}
             /\ \A i \in CallIndices : ~IsLookup(last.calls[i])
             /\ Cardinality(SessionPosts) = 1
             /\ \A i \in SessionPosts : CarriedTicket(last.calls[i]) = last.pre.ticket_id

\* the answers that the handler which has just run received
Answers == {last.calls[i].res : i \in CallIndices}

HasData(body) == body.k = "dict" /\ "data" \in DOMAIN body.m

(* C13: extract_data gives no value for an unparsable body, the value      *)
(* under `data` (empty and null included) for a mapping that has the key   *)
(* `data`, and the whole body unchanged for any other parsed body (a bare  *)
(* list, a mapping without `data`).                                        *)
C13_ExtractDataUnwraps ==
    \A res \in Answers :
        /\ res.body = Unparsable => extract_data(res) = None
        /\ HasData(res.body) => extract_data(res) = res.body.m["data"]
        /\ (res.body # Unparsable /\ ~HasData(res.body)) => extract_data(res) = res.body

C13_Witness ==
    /\ \E res \in Answers : res.body = Unparsable
    /\ \E res \in Answers : res.body.k = "list"
    /\ \E res \in Answers : HasData(res.body) /\ res.body.m["data"] = None
    /\ \E res \in Answers : res.body.k = "dict" /\ ~HasData(res.body)

\* the cache field that a lookup call fills, and the preferred names of its kind
LookupField(call) == IF call.url = "/issue-types" THEN "issue_type_id" ELSE "game_id"
PreferredNames(call) ==
    IF call.url = "/issue-types" THEN PREFERRED_ISSUE_TYPES ELSE PREFERRED_GAMES

\* the candidate list that an answer carries
Candidates(call) ==
    LET body == call.res.body
        data == IF body = Unparsable THEN None
                ELSE IF HasData(body) THEN body.m["data"] ELSE body
    IN  IF data.k = "list" THEN data.l ELSE <<>>

\* the entries of the candidates that have the name and a non-empty id
NamedWithId(items, name) ==
    {n \in DOMAIN items :
        /\ items[n].k = "dict"
        /\ "name" \in DOMAIN items[n].m /\ items[n].m["name"] = JStr(name)
        /\ "id" \in DOMAIN items[n].m /\ Populated(items[n].m["id"])}

\* the preferred-name policy: the earliest preferred name that occurs with
\* a non-empty id, else the first entry
PolicyId(items, preferred) ==
    LET hits == {j \in DOMAIN preferred : NamedWithId(items, preferred[j]) # {}}
        j0 == CHOOSE j \in hits : \A k \in hits : j <= k
        n0 == CHOOSE n \in NamedWithId(items, preferred[j0]) :
                  \A m \in NamedWithId(items, preferred[j0]) : n <= m
    IN  IF hits # {} THEN items[n0].m["id"]
        ELSE IF items[1].k = "dict" /\ "id" \in DOMAIN items[1].m THEN items[1].m["id"]
        ELSE None

(* C14: when a game or issue-type lookup is answered with status 200 and a *)
(* non-empty candidate list, the id selected and cached is the one of the  *)
(* preferred-name policy: the id of the entry with the earliest preferred  *)
(* name that occurs with a non-empty id, wherever it stands in the list,   *)
(* else the id of the first entry.                                         *)
C14_PreferredNamePolicy ==
    \A i \in CallIndices :
        LET call == last.calls[i]
        IN  (IsLookup(call) /\ call.res.status_code = 200 /\ Candidates(call) # <<>>
                /\ Populated(PolicyId(Candidates(call), PreferredNames(call))))
            => After[LookupField(call)] = PolicyId(Candidates(call), PreferredNames(call))

(* C15: in every scenario a POST /sessions carries a non-empty ticket id;  *)
(* when a ticket creation is answered with an accepted status and no id,   *)
(* the handler issues no POST /sessions.                                   *)
C15_SessionPostHasTicketId ==
    /\ \A i \in SessionPosts : Populated(CarriedTicket(last.calls[i]))
    /\ (\E i \in TicketPosts :
            Accepted(last.calls[i]) /\ ~Populated(AnswerId(last.calls[i])))
       => SessionPosts = {}

\* the token that an answer carries in its unwrapped body
AnswerToken(call) ==
    LET body == call.res.body
        data == IF body = Unparsable THEN None
                ELSE IF HasData(body) THEN body.m["data"] ELSE body
    IN  IF data.k = "dict" /\ "accessToken" \in DOMAIN data.m
        THEN data.m["accessToken"] ELSE None

\* the headers of an actor that holds the token
AuthHeaders(token) == JDict("Authorization" :> Bearer(token))

IsAdminLogin(call) == call.name = "auth_login"

(* C16: login_admin returns True exactly when the login answer has status  *)
(* 200 and its unwrapped body carries a non-empty accessToken: then the    *)
(* actor holds that token and its headers (on_start), or the caller goes   *)
(* on with a request that carries them (login_logout, dashboard); in every *)
(* other case the caller stops and token and headers are as they were      *)
(* before the call.                                                        *)
C16_LoginAdminResult ==
    \A i \in CallIndices :
        LET call == last.calls[i]
            ok == call.res.status_code = 200 /\ Populated(AnswerToken(call))
        IN  IsAdminLogin(call)
            => /\ (ok /\ last.handler = "on_start")
                  => /\ After.token = AnswerToken(call)
                     /\ After.headers = AuthHeaders(AnswerToken(call))
               /\ (ok /\ last.handler # "on_start")
                  => /\ i < Len(last.calls)
                     /\ last.calls[i + 1].headers = AuthHeaders(AnswerToken(call))
               /\ ~ok
                  => /\ i = Len(last.calls)
                     /\ After.token = last.pre.token
                     /\ After.headers = last.pre.headers

C16_Witness ==
    /\ LastCls = "AdminUser"
    /\ last.handler = "dashboard"
    /\ Len(last.calls) = 3
    /\ IsAdminLogin(last.calls[1])
    /\ After.token = JStr("tok2")

(* C17: between two handlers, every actor has its token unset exactly when *)
(* its auth headers are unset, and when they are set the Authorization     *)
(* header is "Bearer " followed by the token the actor holds.              *)
C17_TokenAndHeadersConsistent ==
    \A a \in Actors :
        /\ user[a].token = None <=> user[a].headers = None
        /\ user[a].token # None
           => /\ Populated(user[a].token)
              /\ user[a].headers = AuthHeaders(user[a].token)

C17_Witness ==
    /\ LastCls = "AuthUser"
    /\ Len(last.calls) = 2
    /\ last.calls[2].headers = AuthHeaders(JStr("tok1"))
    /\ After.token = None /\ After.headers = None

IsLogout(call) == call.method = "POST" /\ call.url = "/auth/logout"

(* C18: logout_admin, applied to the fields an actor may hold between two  *)
(* handlers, issues no request when the headers are unset, and otherwise   *)
(* issues exactly one POST /auth/logout that carries these headers and     *)
(* leaves token and headers unset whatever the answer.  An AuthUser holds  *)
(* no token between two handlers; its login_logout issues the login first  *)
(* and the logout, with the headers of the token just obtained, only after *)
(* a login that succeeded.                                                 *)
C18_LogoutClearsCredentials ==
    /\ \A a \in Actors :
          LET c == Ctx(user[a])
          IN  IF ~Populated(user[a].headers) THEN logout_admin(c) = {c}
              ELSE \A r \in logout_admin(c) :
                      /\ Len(r.calls) = 1
                      /\ IsLogout(r.calls[1])
                      /\ r.calls[1].headers = user[a].headers
                      /\ r.f.token = None /\ r.f.headers = None
    /\ \A a \in Actors :
          cls[a] = "AuthUser" => user[a].token = None /\ user[a].headers = None
    /\ (LastCls = "AuthUser" /\ last.handler = "login_logout")
       => /\ Len(last.calls) \in {1, 2}
          /\ IsAdminLogin(last.calls[1])
          /\ Len(last.calls) = 2
             <=> (last.calls[1].res.status_code = 200
                    /\ Populated(AnswerToken(last.calls[1])))
          /\ Len(last.calls) = 2
             => /\ IsLogout(last.calls[2])
                /\ last.calls[2].headers = AuthHeaders(AnswerToken(last.calls[1]))

C18_Witness ==
    /\ LastCls = "AuthUser"
    /\ last.handler = "login_logout"
    /\ Len(last.calls) = 2
    /\ IsLogout(last.calls[2])
    /\ last.calls[2].res.status_code = 500
    /\ After.token = None /\ After.headers = None

LookupFields == {"game_id", "issue_type_id"}

\* the environment override of a lookup
EnvOf(f) == IF f = "game_id" THEN ENV_GAME_ID ELSE ENV_ISSUE_TYPE_ID

\* the id of the first entry of a candidate list
FirstEntryId(items) ==
    IF items[1].k = "dict" /\ "id" \in DOMAIN items[1].m THEN items[1].m["id"] ELSE None

IsLocustLookup(call) == call.name \in {"common_games", "common_issue_types"}

\* a lookup that fails, in the words of the claim
LookupFailedAsClaimed(call) ==
    \/ call.res.status_code # 200
    \/ Candidates(call) = <<>>
    \/ ~Populated(FirstEntryId(Candidates(call)))

\* a lookup that selects no id: locustfile.py selects by the preferred names
LookupFailed(call) ==
    \/ call.res.status_code # 200
    \/ Candidates(call) = <<>>
    \/ ~Populated(IF IsLocustLookup(call)
                  THEN PolicyId(Candidates(call), PreferredNames(call))
                  ELSE FirstEntryId(Candidates(call)))

\* a lookup call is issued with an empty cache and no override only; it
\* leaves the cache empty when it failed and filled with an id of the
\* answer when it did not
LookupCallMemoized(call, failed) ==
    LET f == LookupField(call)
    IN  /\ ~Populated(EnvOf(f)) /\ ~Populated(last.pre[f])
        /\ failed => ~Populated(After[f])
        /\ ~failed
           => /\ Populated(After[f])
              /\ \E n \in DOMAIN Candidates(call) :
                    /\ Candidates(call)[n].k = "dict"
                    /\ "id" \in DOMAIN Candidates(call)[n].m
                    /\ Candidates(call)[n].m["id"] = After[f]

\* the id that a ticket creation carries is the override or the cached id
TicketCarriesLookedUpIds ==
    \A i \in TicketPosts :
        /\ last.calls[i].json.m["gameId"]
              = IF Populated(ENV_GAME_ID) THEN ENV_GAME_ID ELSE After.game_id
        /\ last.calls[i].json.m["issueTypeIds"]
              = JList(<<IF Populated(ENV_ISSUE_TYPE_ID) THEN ENV_ISSUE_TYPE_ID
                        ELSE After.issue_type_id>>)

\* the lookup of field f applied to the fields that actor a holds
LookupApplied(a, f) ==
    IF cls[a] = "Locust_PlayerUser"
    THEN IF f = "game_id" THEN Locust_get_any_game_id(Ctx(user[a]), f)
         ELSE Locust_get_any_issue_type_id(Ctx(user[a]), f)
    ELSE IF f = "game_id" THEN get_any_game_id(Ctx(user[a]))
         ELSE get_any_issue_type_id(Ctx(user[a]))

\* the next lookup: the override, else the cached id, both without a
\* request; else one new request (which the game lookup of locustfile.py
\* issues for an actor that has headers only)
NextLookupAsSpecified(a, f) ==
    LET c == Ctx(user[a])
    IN  IF Populated(EnvOf(f)) THEN LookupApplied(a, f) = {Ret(c, EnvOf(f))}
        ELSE IF Populated(user[a][f]) THEN LookupApplied(a, f) = {Ret(c, user[a][f])}
        ELSE IF cls[a] = "Locust_PlayerUser" /\ f = "game_id" /\ ~Populated(user[a].headers)
             THEN LookupApplied(a, f) = {Ret(c, None)}
        ELSE \A r \in LookupApplied(a, f) :
                /\ Len(r.c.calls) = 1
                /\ IsLookup(r.c.calls[1])
                /\ LookupField(r.c.calls[1]) = f

\* what the claim and its correction share
LookupCacheKept ==
    /\ last # NoRecord
       => \A f \in LookupFields : Populated(last.pre[f]) => After[f] = last.pre[f]
    /\ TicketCarriesLookedUpIds
    /\ \A a \in Actors : \A f \in LookupFields :
          cls[a] # "none" => NextLookupAsSpecified(a, f)

(* C19 as claimed: a lookup that is answered with a status other than 200, *)
(* an empty list or a first entry without id leaves the lookup cache       *)
(* empty; every other lookup caches its id; a cached id and an override    *)
(* are returned without a request.                                         *)
C19_LookupMemoizationAsClaimed ==
    /\ LookupCacheKept
    /\ \A i \in CallIndices :
          IsLookup(last.calls[i])
          => LookupCallMemoized(last.calls[i], LookupFailedAsClaimed(last.calls[i]))

(* C19: a lookup that selects no id (status other than 200, empty list,    *)
(* or no entry to select: the first entry has no id and, in locustfile.py, *)
(* no entry of a preferred name has one) leaves the lookup cache empty, so *)
(* that the next call issues a new request; a lookup that selects an id    *)
(* caches it, and every later call issues no request and returns that id;  *)
(* with the environment override set, the lookup returns the override and  *)
(* issues no request.                                                      *)
C19_LookupMemoization ==
    /\ LookupCacheKept
    /\ \A i \in CallIndices :
          IsLookup(last.calls[i])
          => LookupCallMemoized(last.calls[i], LookupFailed(last.calls[i]))

C19_Witness ==
    /\ LastCls = "Locust_PlayerUser"
    /\ \E i \in CallIndices :
          /\ IsLookup(last.calls[i])
          /\ LookupFailedAsClaimed(last.calls[i])
          /\ ~LookupFailed(last.calls[i])
          /\ After[LookupField(last.calls[i])] = JStr("g2")

\* the ids of the entries of a candidate list
CandidateIds(call) ==
    {FirstEntryId(<<Candidates(call)[n]>>) : n \in DOMAIN Candidates(call)}

(* C20: AdminUser.reply_any issues, after its GET /sessions, either        *)
(* nothing or exactly POST /sessions/{sid}/join, POST /messages/agent with *)
(* that sid and PATCH /sessions/{sid}/close, in this order, once each, for *)
(* one non-empty sid of the listed sessions, whatever the join and the     *)
(* message are answered; it issues none of the three when the list request *)
(* is not answered 200, the list is empty or no entry has an id.           *)
C20_ReplyAnyOrder ==
    (LastCls = "AdminUser" /\ last.handler = "reply_any" /\ last.calls # <<>>)
    => /\ last.calls[1].method = "GET" /\ last.calls[1].url = "/sessions"
       /\ Len(last.calls) \in {1, 4}
       /\ (\/ last.calls[1].res.status_code # 200
           \/ \A id \in CandidateIds(last.calls[1]) : ~Populated(id))
          => Len(last.calls) = 1
       /\ Len(last.calls) = 4
          => LET sid == last.calls[2].path
             IN  /\ Populated(sid)
                 /\ sid \in CandidateIds(last.calls[1])
                 /\ last.calls[2].method = "POST"
                 /\ last.calls[2].url = "/sessions/{}/join"
                 /\ last.calls[3].method = "POST"
                 /\ last.calls[3].url = "/messages/agent"
                 /\ last.calls[3].json = JDict("sessionId" :> sid)
                 /\ last.calls[4].method = "PATCH"
                 /\ last.calls[4].url = "/sessions/{}/close"
                 /\ last.calls[4].path = sid

C20_Witness ==
    /\ LastCls = "AdminUser"
    /\ last.handler = "reply_any"
    /\ Len(last.calls) = 4
    /\ last.calls[2].path = JStr("s2")
    /\ last.calls[2].res.status_code = 500
    /\ last.calls[3].res.status_code = 500
    /\ last.calls[4].path = JStr("s2")

\* the actors that keep one WebSocket connection for their lifetime
LongLivedWsClasses == {"WsUser", "PressureWsUser"}

\* the calls of the socketio client of the handler that has just run
WsCalls(op) == {i \in CallIndices : last.calls[i].method = "WS" /\ last.calls[i].url = op}
FailedWsCalls == {i \in CallIndices : last.calls[i].method = "WS" /\ last.calls[i].res = WsRaised}

\* the WS events that report a failure (fired with an exception)
WsFailureEvents ==
    {e \in DOMAIN last.events :
        last.events[e].request_type = "WS" /\ last.events[e].text # None}

(* C21: a long-lived WebSocket actor connects in on_start only, once; its  *)
(* heartbeat only emits a ping; it disconnects in on_stop only; a connect  *)
(* or an emit that fails is reported by one WS failure event and no        *)
(* handler ends with an unhandled error.                                   *)
C21_LongLivedWsActor ==
    LastCls \in LongLivedWsClasses
    => /\ ~last.raised
       /\ Cardinality(WsCalls("connect")) = (IF last.handler = "on_start" THEN 1 ELSE 0)
       /\ Cardinality(WsCalls("disconnect")) = (IF last.handler = "on_stop" THEN 1 ELSE 0)
       /\ Cardinality(WsCalls("emit")) = (IF last.handler = "heartbeat" THEN 1 ELSE 0)
       /\ Cardinality(WsFailureEvents) = Cardinality(FailedWsCalls)

(* C22: every request of an AdminUser other than the login carries        *)
(* populated auth headers; a dashboard that starts with unset headers logs *)
(* in first and issues its two GETs only when that login succeeded; a      *)
(* reply_any that starts with unset headers issues no request.             *)
C22_AdminRequestsAuthenticated ==
    LastCls = "AdminUser"
    => /\ \A i \in CallIndices :
            ~IsAdminLogin(last.calls[i]) => Populated(last.calls[i].headers)
       /\ (last.handler = "dashboard" /\ ~Populated(last.pre.headers))
          => /\ Len(last.calls) \in {1, 3}
             /\ IsAdminLogin(last.calls[1])
             /\ Len(last.calls) = 3
                <=> (last.calls[1].res.status_code = 200
                       /\ Populated(AnswerToken(last.calls[1])))
       /\ (last.handler = "dashboard" /\ Len(last.calls) > 1)
          => LET n == Len(last.calls)
             IN  /\ last.calls[n - 1].method = "GET" /\ last.calls[n - 1].url = "/tickets"
                 /\ last.calls[n].method = "GET" /\ last.calls[n].url = "/sessions"
                 /\ last.calls[n].headers = After.headers
                 /\ last.calls[n - 1].headers = After.headers
       /\ (last.handler = "reply_any" /\ ~Populated(last.pre.headers))
          => last.calls = <<>>

C22_Witness ==
    /\ LastCls = "AdminUser"
    /\ last.handler = "dashboard"
    /\ ~Populated(last.pre.headers)
    /\ Len(last.calls) = 1
    /\ last.calls[1].res.status_code = 401
    /\ ~Populated(After.headers)

(* C23: create_session_task of PlayerUser and PlayerCoreUser, run with a   *)
(* cached ticket id and a cached session id, issues exactly one request,   *)
(* a POST /sessions that carries the cached ticket id, and no              *)
(* POST /tickets; the ticket cache is left as it was; when the answer is   *)
(* accepted and carries an id, that id is the cached session id            *)
(* afterwards; when the answer has a status that is not accepted, the      *)
(* cached session id is left as it was.                                    *)
C23_CreateSessionTaskWithBothCached ==
    (LastCls \in {"PlayerUser", "PlayerCoreUser"}
        /\ last.handler = "create_session_task"
        /\ Populated(last.pre.ticket_id) /\ Populated(last.pre.session_id))
    => /\ Len(last.calls) = 1
       /\ IsSessionPost(last.calls[1])
       /\ CarriedTicket(last.calls[1]) = last.pre.ticket_id
       /\ After.ticket_id = last.pre.ticket_id
       /\ ~CreationFailed(last.calls[1]) => After.session_id = AnswerId(last.calls[1])
       /\ ~Accepted(last.calls[1]) => After.session_id = last.pre.session_id

C23_Witness ==
    /\ LastCls = "PlayerUser"
    /\ last.handler = "create_session_task"
    /\ last.pre.ticket_id = JStr("t1")
    /\ last.pre.session_id = JStr("s1")
    /\ After.session_id = JStr("s2")

(* C24: in a keepalive of the reconnecting WebSocket actor every connect   *)
(* that returned is followed, in the same task, by a disconnect, and the   *)
(* task leaves the client closed, also when the emit or the sleep raises.  *)
C24_ConnectMatchedByDisconnect ==
    (LastCls = "Plan_WsUser" /\ last.handler = "keepalive")
    => /\ \A i \in WsCalls("connect") :
            last.calls[i].res = WsReturned
            => \E j \in WsCalls("disconnect") : j > i
       /\ After.sio # SioOpen

\* the calls of full_flow, by kind
Polls == {i \in CallIndices : last.calls[i].method = "GET"
                                /\ last.calls[i].url = "/messages/session/{}"}
Details == {i \in CallIndices : last.calls[i].method = "GET"
                                  /\ last.calls[i].url = "/sessions/{}"}
MessagePosts == {i \in CallIndices : IsMessagePost(last.calls[i])}

\* a poll answered with status 200 and a list of more than one message
PollSatisfied(call) ==
    /\ call.res.status_code = 200
    /\ LET body == call.res.body
           data == IF body.k = "dict" /\ "data" \in DOMAIN body.m
                   THEN body.m["data"] ELSE body
       IN  data.k = "list" /\ Len(data.l) >= 2

\* ticket and session were both created with an id
FlowCreated ==
    /\ \E i \in TicketPosts : ~CreationFailed(last.calls[i])
    /\ \E i \in SessionPosts : ~CreationFailed(last.calls[i])

(* C25: full_flow of the plan PlayerUser ends without an error after at    *)
(* most two lookups, one ticket creation, one session creation, one        *)
(* message, MaxPolls polls and one detail request.  When ticket and        *)
(* session are created, it sends one message, then polls the messages of   *)
(* the new session at least once and at most MaxPolls times, no poll       *)
(* follows a poll answered 200 with a list of more than one message and    *)
(* polling ends before MaxPolls only after such an answer, and the last    *)
(* request is the one session-detail request.  When the ticket or the      *)
(* session is not created, there is no message, poll or detail request.    *)
C25_FullFlowBounded ==
    (LastCls = "Plan_PlayerUser" /\ last.handler = "full_flow")
    => /\ ~last.raised
       /\ Cardinality(TicketPosts) <= 1 /\ Cardinality(SessionPosts) <= 1
       /\ Cardinality(Polls) <= MaxPolls
       /\ Len(last.calls) <= 2 + 3 + MaxPolls + 1
       /\ FlowCreated
          => /\ Cardinality(MessagePosts) = 1
             /\ Cardinality(Details) = 1
             /\ Polls # {}
             /\ \A m \in MessagePosts, i \in Polls, d \in Details :
                    /\ \A s \in SessionPosts : s < m
                    /\ m < i /\ i < d /\ d = Len(last.calls)
                    /\ \A s \in SessionPosts :
                          /\ CarriedSession(last.calls[m]) = AnswerId(last.calls[s])
                          /\ CarriedSession(last.calls[i]) = AnswerId(last.calls[s])
                          /\ CarriedSession(last.calls[d]) = AnswerId(last.calls[s])
             /\ \A i \in Polls :
                    PollSatisfied(last.calls[i]) => \A j \in Polls : j <= i
             /\ Cardinality(Polls) < MaxPolls
                => \E i \in Polls : PollSatisfied(last.calls[i])
       /\ ~FlowCreated => MessagePosts = {} /\ Polls = {} /\ Details = {}

\* two polls without enough messages, a third with two messages, then the detail
C25_Witness ==
    /\ LastCls = "Plan_PlayerUser" /\ last.handler = "full_flow"
    /\ FlowCreated
    /\ Cardinality(Polls) = 3
    /\ \E i \in Polls : PollSatisfied(last.calls[i])
    /\ Details # {}

\* a request that sends a message into a session
IsSend(call) ==
    call.method = "POST" /\ call.url \in {"/messages", "/sessions/{}/messages"}

(* C26: for AIMessageUser and PressureMessageUser, an on_start run with    *)
(* AI_SESSION_ID set issues no request and leaves sid equal to it; an      *)
(* on_start run without it leaves sid empty unless its last request is an  *)
(* accepted POST /sessions, preceded by an accepted POST /tickets, whose   *)
(* answer carries the sid; a task never changes sid and issues neither a   *)
(* lookup nor a creation; it issues exactly one request, a message into    *)
(* the session sid, when sid is populated and no request otherwise.        *)
C26_StressSenderSessionFixedAtStart ==
    (LastCls \in StressClasses)
    => /\ (last.handler = "on_start" /\ Populated(AI_SESSION_ID))
          => last.calls = <<>> /\ After.sid = AI_SESSION_ID
       /\ (last.handler = "on_start" /\ ~Populated(AI_SESSION_ID) /\ After.sid # None)
          => /\ last.calls # <<>>
             /\ IsSessionPost(last.calls[Len(last.calls)])
             /\ Accepted(last.calls[Len(last.calls)])
             /\ After.sid = AnswerId(last.calls[Len(last.calls)])
             /\ \E i \in TicketPosts : Accepted(last.calls[i])
       /\ last.handler # "on_start"
          => /\ After.sid = last.pre.sid
             /\ \A i \in CallIndices : IsSend(last.calls[i])
             /\ Populated(last.pre.sid)
                => /\ Len(last.calls) = 1
                   /\ CarriedSession(last.calls[1]) = last.pre.sid
             /\ ~Populated(last.pre.sid) => last.calls = <<>>

\* a message sent into the session that the setup of on_start created
C26_Witness ==
    /\ LastCls = "PressureMessageUser"
    /\ last.handler = "send_core_message"
    /\ AI_SESSION_ID = None
    /\ last.pre.sid = JStr("s2")
    /\ Len(last.calls) = 1
    /\ last.calls[1].path = JStr("s2")

====
